---- MODULE Spec2Model ----
(***************************************************************************)
(* Sibilant, a one-shot clipboard translation command.                     *)
(*                                                                         *)
(* The repository holds three variants of the same script:                 *)
(*   "translate-buffer"  src/src/translate-buffer.ts (text only, OpenAI    *)
(*                       and LibreTranslate providers)                     *)
(*   "main"              src/scripts/get-avalable-openai-models.ts, lines  *)
(*                       37-470 (content detection, text and image path)   *)
(*   "local"             src/scripts/get-avalable-openai-models.ts, lines  *)
(*                       472-668 (OpenAI and local command providers)      *)
(* One behaviour of the model is one invocation of one variant.  Strings   *)
(* are sequences of tokens, so that trim() and message wrapping are        *)
(* computed and not assumed.                                               *)
(***************************************************************************)
EXTENDS Integers, Sequences, FiniteSets, TLC

VARIABLES
  script,        \* which variant of the script runs
  provider,      \* config translation.provider
  providers,     \* config providers: identifier -> type, or "absent"
  targetLanguage, \* config translation.targetLanguage
  template,      \* config args of the local-command provider
  clipboard,     \* text on the system clipboard
  image,         \* image on the system clipboard: "none", "empty", "data"
  service,       \* the LibreTranslate service: "up", "dead", "silent"
  pc,            \* position of the invocation
  text,          \* translateText: const text
  translationProvider, \* the constructed provider class, "none" before
  translation,   \* the string handed to clipboardy.write
  result,        \* translateImage: const result (parsed JSON)
  error,         \* the error being thrown, NoErr when none
  files,         \* temporary files that exist
  now,           \* number of showNotification calls so far (Date.now())
  calls,         \* number of external calls made, by kind
  exitStatus,    \* process exit status, -1 while running
  clip0,         \* history: clipboard when the invocation started
  origErr,       \* history: first error thrown in the invocation
  probe,         \* history: raw outcome of GET /languages
  written,       \* history: clipboardy.write(translation) succeeded
  returned,      \* history: what provider.translate returned, as a set
  notifyFailed,  \* history: an error notification threw
  shown,         \* history: the dialogs displayed, message and button
  produced,      \* history: a provider returned a translation
  detectRead,    \* history: clipboardy.read() of detectClipboardContent
  soundFailed,   \* history: an afplay command failed
  exec,          \* history: the translator subprocess, its arguments and result
  contentType    \* main: result of detectClipboardContent

vars == <<script, provider, providers, targetLanguage, template, clipboard,
          image, service, pc, text,
          translationProvider, translation, result, error, files, now,
          calls, exitStatus, clip0, origErr, probe, written, returned,
          notifyFailed, shown, produced, detectRead, soundFailed, exec,
          contentType>>

----------------------------------------------------------------------------
\* Bounds

MaxLen == 2

----------------------------------------------------------------------------
\* Strings

Chars == {" ", "a"}

Texts == UNION {[1..n -> Chars] : n \in 0..MaxLen}

IsSpace(c) == c = " "

RECURSIVE TrimStart(_)
TrimStart(s) ==
  IF s = <<>> THEN <<>>
  ELSE IF IsSpace(Head(s)) THEN TrimStart(Tail(s)) ELSE s

RECURSIVE TrimEnd(_)
TrimEnd(s) ==
  IF s = <<>> THEN <<>>
  ELSE IF IsSpace(s[Len(s)]) THEN TrimEnd(SubSeq(s, 1, Len(s) - 1)) ELSE s

Trim(s) == TrimEnd(TrimStart(s))

----------------------------------------------------------------------------
\* Errors, by message

NoErr == <<>>

ErrTitleOfUndefined == <<"Cannot read properties of undefined (reading 'title')">>
ErrProviderNotFound(id) == <<"Provider '", id, "' not found">>
ErrUnsupportedProvider(id) == <<"Unsupported provider: ", id>>
ErrNoTranslation == <<"No translation found in the response">>
ErrServiceUnavailable ==
  <<"Service is not available. Please make sure the service is running on port 9012.">>
ErrApi(statusText, errorField) ==
  <<"API error: ", statusText>> \o
    (IF errorField = <<>> THEN <<>> ELSE <<" - ">> \o errorField)
ErrParse == <<"Failed to parse translation result">>
ErrImageOnlyOpenAI == <<"Image translation is only supported with OpenAI provider">>
ErrNoImage == <<"No image found in clipboard">>
ErrUnsupportedContent == <<"Unsupported clipboard content type">>
TranslationFailed(e) == <<"Translation failed: ">> \o e

\* errors thrown by the collaborators
ErrFetch == <<"fetch failed">>
ErrOpenAI == <<"Connection error.">>
ErrExec(cmd) == <<"Command failed: ", cmd>>
ErrClipboard == <<"clipboard command failed">>
ErrWriteNotString == <<"Expected a string">>

----------------------------------------------------------------------------
\* Configuration

ProviderIds == {"open-ai", "libre-translate", "local-translate", "deepl"}
Types == {"cloud", "local-service", "local"}
Absent == "absent"

DefaultProviders ==
  [id \in ProviderIds |->
     CASE id = "open-ai" -> "cloud"
       [] id = "libre-translate" -> "local-service"
       [] id = "local-translate" -> "local"
       [] OTHER -> Absent]

Scripts == {"translate-buffer", "main", "local"}

TMP_IMAGE_PATH == [path |-> "tmp_clipboard.png", ts |-> 0]
scriptFile(ts) == [path |-> "/tmp/sibilant-dialog-.scpt", ts |-> ts]

NoCalls == [health |-> 0, post |-> 0, chat |-> 0, cmd |-> 0, pngpaste |-> 0,
            osascript |-> 0, afplay |-> 0, construct |-> 0, read |-> 0]

BackendCalls == calls.chat + calls.post + calls.cmd
ExternalCalls == BackendCalls + calls.health + calls.pngpaste
                   + calls.osascript + calls.afplay

\* the args template of the README-style configuration
DefaultTemplate == <<<<"--to">>, <<"{targetLanguage}">>, <<"{text}">>>>

NoExec == [ran |-> FALSE, args |-> <<>>, argv |-> <<>>, kind |-> "none",
           stdout |-> <<>>, stderr |-> FALSE]

NoResult == [hasText |-> FALSE, hasTranslation |-> FALSE,
             text |-> <<>>, translation |-> <<>>]

Init ==
  /\ script \in Scripts
  /\ provider \in ProviderIds
  /\ \E t \in Types \cup {Absent} :
       providers = [DefaultProviders EXCEPT ![provider] = t]
  /\ targetLanguage = <<"en">>
  /\ template = DefaultTemplate
  /\ clipboard \in Texts
  /\ image \in {"none", "empty", "data"}
  /\ service \in {"up", "dead", "silent"}
  /\ pc = CASE script = "main" -> "main"
            [] script = "local" -> "tt_purr"
            [] OTHER -> "tt_config"
  /\ text = <<>>
  /\ translationProvider = "none"
  /\ translation = <<>>
  /\ result = NoResult
  /\ error = NoErr
  /\ files = {}
  /\ now = 0
  /\ calls = NoCalls
  /\ exitStatus = -1
  /\ clip0 = clipboard
  /\ origErr = NoErr
  /\ probe = "none"
  /\ written = FALSE
  /\ returned = {}
  /\ notifyFailed = FALSE
  /\ shown = <<>>
  /\ produced = FALSE
  /\ detectRead = "none"
  /\ soundFailed = FALSE
  /\ exec = NoExec
  /\ contentType = "none"

----------------------------------------------------------------------------
\* Outcomes of the external collaborators (the inputs of an invocation)

\* client.chat.completions.create: rejects, or resolves with
\* choices[0].message.content null or a string
ChatResponses ==
  {[kind |-> "throw", content |-> <<>>], [kind |-> "null", content |-> <<>>]}
    \cup {[kind |-> "content", content |-> t] : t \in Texts}

\* fetch(baseUrl + "/languages")
HealthResponses == {"throw", "non2xx", "ok"}

\* what the fetch of the probe settles with: a service that is up answers, a
\* dead one refuses the connection, a silent one never answers and the fetch
\* rejects when the runtime gives up (the code passes no signal or timeout)
HealthOutcomes(sv) ==
  IF sv = "up" THEN HealthResponses \ {"throw"} ELSE {"throw"}

\* fetch(baseUrl + "/translate") and response.json()
PostResponses ==
  {[kind |-> "throw", body |-> "none", value |-> <<>>]}
    \cup {[kind |-> "non2xx", body |-> b, value |-> <<>>] : b \in {"invalid", "empty"}}
    \cup {[kind |-> "non2xx", body |-> "error", value |-> <<"a">>]}
    \cup {[kind |-> "ok", body |-> b, value |-> <<>>] : b \in {"invalid", "empty"}}
    \cup {[kind |-> "ok", body |-> "translatedText", value |-> t] : t \in Texts}

\* execAsync(command + args) of the local translator
ExecResponses ==
  {[kind |-> "throw", stdout |-> <<>>, stderr |-> FALSE]}
    \cup {[kind |-> "exit0", stdout |-> t, stderr |-> e] : t \in Texts, e \in BOOLEAN}

\* the three execAsync calls of showNotification and the button pressed
NotifyOutcomes == {"echo-fails", "osascript-fails", "rm-fails", "ok", "copy"}

\* pngpaste, existsSync, readFileSync, unlinkSync
CaptureOutcomes == {"pngpaste-fails", "no-file", "read-fails", "unlink-fails", "ok"}

\* content of the vision response
ImageResponses ==
  {[kind |-> k, hasText |-> FALSE, hasTranslation |-> FALSE, translation |-> <<>>] :
       k \in {"throw", "null", "empty", "notjson"}}
    \cup {[kind |-> "json", hasText |-> ht, hasTranslation |-> FALSE, translation |-> <<>>] :
       ht \in BOOLEAN}
    \cup {[kind |-> "json", hasText |-> ht, hasTranslation |-> TRUE, translation |-> t] :
       ht \in BOOLEAN, t \in Texts}

----------------------------------------------------------------------------
\* Pure parts of the code

\* detectClipboardContent that probes the text before the image
detectClipboardContent_textFirst(img, readThrows, content) ==
  IF ~readThrows /\ content # <<>> /\ Len(Trim(content)) > 0 THEN "text"
  ELSE IF img = "data" THEN "image"
  ELSE "unknown"

\* detectClipboardContent: nativeClipboard.getImage() throws without an image
detectClipboardContent(img, readThrows, content) ==
  IF img = "data" THEN "image"
  ELSE IF readThrows THEN "unknown"
  ELSE IF content # <<>> /\ Len(Trim(content)) > 0 THEN "text"
  ELSE "unknown"

\* createTranslationProvider: the class constructed, or the error thrown
createTranslationProvider(s, id, ps) ==
  IF ps[id] = Absent
    THEN [class |-> "none", err |-> ErrProviderNotFound(id)]
  ELSE IF id = "open-ai"
    THEN [class |-> "OpenAITranslationProvider", err |-> NoErr]
  ELSE IF s # "local" /\ id = "libre-translate"
    THEN [class |-> "LibreTranslateProvider", err |-> NoErr]
  ELSE IF s = "local" /\ id = "local-translate"
    THEN [class |-> "LocalTranslationProvider", err |-> NoErr]
  ELSE [class |-> "none", err |-> ErrUnsupportedProvider(id)]

\* OpenAITranslationProvider.translate after the request
OpenAITranslate(r) ==
  IF r.kind = "throw" THEN [err |-> ErrOpenAI, value |-> <<>>]
  ELSE IF r.kind = "null" \/ Trim(r.content) = <<>>
    THEN [err |-> ErrNoTranslation, value |-> <<>>]
  ELSE [err |-> NoErr, value |-> Trim(r.content)]

\* checkHealth that returns true whenever the fetch resolves (response.ok ignored)
checkHealth_ignoresStatus(o) == o # "throw"

\* checkHealth whose catch block reports the service as healthy
checkHealth_catchReturnsTrue(o) == o # "non2xx"

\* LibreTranslateProvider.checkHealth
checkHealth(o) == o = "ok"

\* LibreTranslateProvider.translate after a healthy probe
LibreTranslate(r) ==
  IF r.kind = "throw"
    THEN [err |-> TranslationFailed(ErrFetch), value |-> <<>>]
  ELSE IF r.kind = "non2xx"
    THEN [err |-> TranslationFailed(ErrApi("Bad Request", r.value)), value |-> <<>>]
  ELSE IF r.body = "invalid"
    THEN [err |-> TranslationFailed(<<"Unexpected end of JSON input">>), value |-> <<>>]
  ELSE IF r.body = "empty" \/ r.value = <<>>
    THEN [err |-> TranslationFailed(ErrNoTranslation), value |-> <<>>]
  ELSE [err |-> NoErr, value |-> r.value]

\* String.prototype.replace with a string pattern: the first occurrence of
\* the pattern, searched in the whole string, is replaced
RECURSIVE Replace(_, _, _)
Replace(s, pattern, replacement) ==
  IF s = <<>> THEN <<>>
  ELSE IF Head(s) = pattern THEN replacement \o Tail(s)
  ELSE <<Head(s)>> \o Replace(Tail(s), pattern, replacement)

\* this.config.args.map(arg => arg.replace('{text}', text)
\*                               .replace('{targetLanguage}', targetLanguage))
buildArgs(tpl, txt, tl) ==
  [i \in 1..Len(tpl) |->
     Replace(Replace(tpl[i], "{text}", txt), "{targetLanguage}", tl)]

\* args.join(' ')
RECURSIVE Join(_)
Join(as) ==
  IF as = <<>> THEN <<>>
  ELSE IF Len(as) = 1 THEN as[1]
  ELSE as[1] \o <<" ">> \o Join(Tail(as))

\* the words the shell of exec() hands to the executable for a command line
RECURSIVE ShellWords(_, _)
ShellWords(line, word) ==
  IF line = <<>> THEN (IF word = <<>> THEN <<>> ELSE <<word>>)
  ELSE IF IsSpace(Head(line))
    THEN (IF word = <<>> THEN <<>> ELSE <<word>>) \o ShellWords(Tail(line), <<>>)
  ELSE ShellWords(Tail(line), Append(word, Head(line)))

\* translate that treats output on standard error as a failure
LocalTranslate_stderrFatal(r) ==
  IF r.kind = "throw" \/ r.stderr
    THEN [err |-> TranslationFailed(ErrExec("translate")), value |-> <<>>]
  ELSE [err |-> NoErr, value |-> Trim(r.stdout)]

\* LocalTranslationProvider.translate after the subprocess
LocalTranslate(r) ==
  IF r.kind = "throw"
    THEN [err |-> TranslationFailed(ErrExec("translate")), value |-> <<>>]
  ELSE [err |-> NoErr, value |-> Trim(r.stdout)]

\* OpenAITranslationProvider.translateImage after the request
OpenAITranslateImage(r) ==
  IF r.kind = "throw" THEN [err |-> ErrOpenAI, value |-> NoResult]
  ELSE IF r.kind \in {"null", "empty"} THEN [err |-> ErrNoTranslation, value |-> NoResult]
  ELSE IF r.kind = "notjson" THEN [err |-> ErrParse, value |-> NoResult]
  ELSE [err |-> NoErr,
        value |-> [hasText |-> r.hasText, hasTranslation |-> r.hasTranslation,
                   text |-> IF r.hasText THEN <<"a">> ELSE <<>>,
                   translation |-> r.translation]]

\* showNotification: does it reject, and with what
NotifyThrows(o) == o \in {"echo-fails", "osascript-fails", "rm-fails"}
NotifyErr(o) ==
  CASE o = "echo-fails" -> ErrExec("echo")
    [] o = "osascript-fails" -> ErrExec("osascript")
    [] o = "rm-fails" -> ErrExec("rm")
    [] OTHER -> NoErr

\* showNotification whose script copies the text whatever button is pressed
showNotification_copyOnAnyButton(message, o) ==
  /\ now' = now + 1
  /\ files' = IF o \in {"osascript-fails", "rm-fails"}
                THEN files \cup {scriptFile(now)} ELSE files
  /\ clipboard' = IF o \in {"ok", "copy"} THEN message ELSE clipboard
  /\ shown' = IF o \in {"rm-fails", "ok", "copy"}
                THEN Append(shown, [message |-> message,
                                    button |-> IF o = "copy" THEN "Copy" ELSE "OK"])
                ELSE shown
  /\ calls' = [calls EXCEPT !.osascript = @ + (IF o = "echo-fails" THEN 0 ELSE 1)]

\* showNotification: its effect on the files, the clipboard and the counters
showNotification(message, o) ==
  /\ now' = now + 1
  /\ files' = IF o \in {"osascript-fails", "rm-fails"}
                THEN files \cup {scriptFile(now)} ELSE files
  /\ clipboard' = IF o = "copy" THEN message ELSE clipboard
  /\ shown' = IF o \in {"rm-fails", "ok", "copy"}
                THEN Append(shown, [message |-> message,
                                    button |-> IF o = "copy" THEN "Copy" ELSE "OK"])
                ELSE shown
  /\ calls' = [calls EXCEPT !.osascript = @ + (IF o = "echo-fails" THEN 0 ELSE 1)]

\* throw e: control passes to the enclosing catch block
Throw(e, catch) ==
  /\ error' = e
  /\ origErr' = IF origErr = NoErr THEN e ELSE origErr
  /\ pc' = catch

NoThrow(next) ==
  /\ pc' = next
  /\ UNCHANGED <<error, origErr>>

cfg == <<script, provider, providers, targetLanguage, template, image,
         service, clip0>>

----------------------------------------------------------------------------
\* main (script "main"): detect the content and dispatch

main ==
  /\ pc = "main"
  /\ \E readThrows \in BOOLEAN :
       LET ct == detectClipboardContent(image, readThrows, clipboard) IN
       /\ contentType' = ct
       /\ detectRead' = IF image = "data" THEN "none"
                        ELSE IF readThrows THEN "throws" ELSE "ok"
       /\ calls' = [calls EXCEPT !.read = @ + (IF image = "data" THEN 0 ELSE 1)]
       /\ CASE ct = "text" -> NoThrow("tt_config")
            [] ct = "image" -> NoThrow("ti_config")
            [] OTHER -> Throw(ErrUnsupportedContent, "main_catch")
  /\ UNCHANGED <<cfg, exec, soundFailed, produced, clipboard, text, translationProvider,
                 translation, result, files, now, exitStatus, probe, written,
                 returned, notifyFailed, shown>>

\* catch block of main: notify, and do not rethrow
main_catch ==
  /\ pc = "main_catch"
  /\ \E o \in NotifyOutcomes :
       /\ showNotification(error, o)
       /\ error' = IF NotifyThrows(o) THEN NotifyErr(o) ELSE error
       /\ notifyFailed' = (notifyFailed \/ NotifyThrows(o))
       /\ exitStatus' = IF NotifyThrows(o) THEN 1 ELSE 0
  /\ pc' = "done"
  /\ UNCHANGED <<cfg, exec, soundFailed, produced, detectRead, text, translationProvider,
                 translation, result, origErr, probe, written, returned,
                 contentType>>

----------------------------------------------------------------------------
\* translateText

\* script "local": execAsync('afplay .../Purr.aiff') inside the try block
translateText_purr ==
  /\ pc = "tt_purr"
  /\ calls' = [calls EXCEPT !.afplay = @ + 1]
  /\ \E soundFails \in BOOLEAN :
       /\ soundFailed' = (soundFailed \/ soundFails)
       /\ IF soundFails THEN Throw(ErrExec("afplay"), "tt_catch") ELSE NoThrow("tt_read")
  /\ UNCHANGED <<cfg, exec, produced, detectRead, clipboard, text,
                 translationProvider, translation, result, files, now,
                 exitStatus, probe, written, returned, notifyFailed, shown,
                 contentType>>

\* the two console.log lines that read provider.title
translateText_config ==
  /\ pc = "tt_config"
  /\ IF providers[provider] = Absent
       THEN Throw(ErrTitleOfUndefined, "tt_catch")
       ELSE NoThrow("tt_read")
  /\ UNCHANGED <<cfg, exec, soundFailed, produced, detectRead, clipboard, text,
                 translationProvider, translation, result, files, now, calls,
                 exitStatus, probe, written, returned, notifyFailed, shown,
                 contentType>>

\* translateText that rejects an empty clipboard text before the provider
translateText_read_rejectsEmpty ==
  /\ pc = "tt_read"
  /\ calls' = [calls EXCEPT !.read = @ + 1]
  /\ \E readThrows \in BOOLEAN :
       IF readThrows
         THEN Throw(ErrClipboard, "tt_catch") /\ text' = text
       ELSE IF clipboard = <<>>
         THEN Throw(ErrUnsupportedContent, "tt_catch") /\ text' = text
         ELSE NoThrow("tt_create") /\ text' = clipboard
  /\ UNCHANGED <<cfg, exec, soundFailed, produced, detectRead, clipboard, translationProvider,
                 translation, result, files, now, exitStatus, probe, written,
                 returned, notifyFailed, shown, contentType>>

\* const text = await clipboardy.read()
translateText_read ==
  /\ pc = "tt_read"
  /\ calls' = [calls EXCEPT !.read = @ + 1]
  /\ \E readThrows \in BOOLEAN :
       IF readThrows
         THEN Throw(ErrClipboard, "tt_catch") /\ text' = text
         ELSE NoThrow("tt_create") /\ text' = clipboard
  /\ UNCHANGED <<cfg, exec, soundFailed, produced, detectRead, clipboard, translationProvider,
                 translation, result, files, now, exitStatus, probe, written,
                 returned, notifyFailed, shown, contentType>>

\* the position where the constructed provider's translate starts
TranslateEntry(class) ==
  CASE class = "OpenAITranslationProvider" -> "oa_translate"
    [] class = "LibreTranslateProvider" -> "lt_health"
    [] OTHER -> "lc_exec"

\* const translationProvider = createTranslationProvider(translationConfig)
translateText_create ==
  /\ pc = "tt_create"
  /\ LET c == createTranslationProvider(script, provider, providers) IN
       IF c.err # NoErr
         THEN /\ Throw(c.err, "tt_catch")
              /\ UNCHANGED <<translationProvider, calls>>
         ELSE /\ NoThrow(TranslateEntry(c.class))
              /\ translationProvider' = c.class
              /\ calls' = [calls EXCEPT !.construct = @ + 1]
  /\ UNCHANGED <<cfg, exec, soundFailed, produced, detectRead, clipboard, text, translation,
                 result, files, now, exitStatus, probe, written, returned,
                 notifyFailed, shown, contentType>>

\* provider.translate returned r or threw
Returned(r, okPc) ==
  IF r.err # NoErr
    THEN Throw(r.err, "tt_catch") /\ UNCHANGED <<translation, returned, produced>>
    ELSE /\ NoThrow(okPc)
         /\ translation' = r.value
         /\ returned' = returned \cup {r.value}
         /\ produced' = TRUE

\* translate that issues the request again when the request throws
OpenAITranslationProvider_translate_retry ==
  /\ pc = "oa_translate"
  /\ calls' = [calls EXCEPT !.chat = @ + 1]
  /\ \E r \in ChatResponses :
       IF r.kind = "throw" /\ calls.chat < 2
         THEN NoThrow("oa_translate") /\ UNCHANGED <<translation, returned, produced>>
         ELSE Returned(OpenAITranslate(r), "tt_write")
  /\ UNCHANGED <<cfg, exec, soundFailed, detectRead, clipboard, text, translationProvider,
                 result, files, now, exitStatus, probe, written, notifyFailed,
                 shown, contentType>>

OpenAITranslationProvider_translate ==
  /\ pc = "oa_translate"
  /\ calls' = [calls EXCEPT !.chat = @ + 1]
  /\ \E r \in ChatResponses : Returned(OpenAITranslate(r), "tt_write")
  /\ UNCHANGED <<cfg, exec, soundFailed, detectRead, clipboard, text, translationProvider,
                 result, files, now, exitStatus, probe, written, notifyFailed,
                 shown, contentType>>

\* LibreTranslateProvider.translate up to the isHealthy test
LibreTranslateProvider_health ==
  /\ pc = "lt_health"
  /\ calls' = [calls EXCEPT !.health = @ + 1]
  /\ \E o \in HealthOutcomes(service) :
       /\ probe' = o
       /\ pc' = IF checkHealth(o) THEN "lt_post" ELSE "lt_sound"
  /\ UNCHANGED <<cfg, exec, soundFailed, produced, detectRead, clipboard, text,
                 translationProvider, translation, result, error, origErr,
                 files, now, exitStatus, written, returned, notifyFailed,
                 shown, contentType>>

\* await this.playSound('Sosumi'), whose failure playSound swallows;
\* throw ...; the catch block of translate wraps it
LibreTranslateProvider_unavailable ==
  /\ pc = "lt_sound"
  /\ calls' = [calls EXCEPT !.afplay = @ + 1]
  /\ \E soundFails \in BOOLEAN : soundFailed' = (soundFailed \/ soundFails)
  /\ Throw(TranslationFailed(ErrServiceUnavailable), "tt_catch")
  /\ UNCHANGED <<cfg, exec, produced, detectRead, clipboard, text,
                 translationProvider, translation, result, files, now,
                 exitStatus, probe, written, returned, notifyFailed, shown,
                 contentType>>

\* POST /translate and the handling of its response
LibreTranslateProvider_post ==
  /\ pc = "lt_post"
  /\ calls' = [calls EXCEPT !.post = @ + 1]
  /\ \E r \in PostResponses : Returned(LibreTranslate(r), "tt_write")
  /\ UNCHANGED <<cfg, exec, soundFailed, detectRead, clipboard, text, translationProvider,
                 result, files, now, exitStatus, probe, written, notifyFailed,
                 shown, contentType>>

LocalTranslationProvider_translate ==
  /\ pc = "lc_exec"
  /\ calls' = [calls EXCEPT !.cmd = @ + 1]
  /\ \E r \in ExecResponses :
       /\ Returned(LocalTranslate(r), "tt_write")
       /\ LET args == buildArgs(template, text, targetLanguage) IN
          exec' = [ran |-> TRUE, args |-> args,
                   argv |-> ShellWords(Join(args), <<>>),
                   kind |-> r.kind, stdout |-> r.stdout, stderr |-> r.stderr]
  /\ UNCHANGED <<cfg, soundFailed, detectRead, clipboard, text, translationProvider,
                 result, files, now, exitStatus, probe, written, notifyFailed,
                 shown, contentType>>

\* translateText that writes the source text back instead of the translation
translateText_write_sourceText ==
  /\ pc = "tt_write"
  /\ \E writeThrows \in BOOLEAN :
       IF writeThrows
         THEN Throw(ErrClipboard, "tt_catch") /\ UNCHANGED <<clipboard, written>>
         ELSE /\ NoThrow(IF script = "local" THEN "tt_hero" ELSE "tt_notify")
              /\ clipboard' = text
              /\ written' = TRUE
  /\ UNCHANGED <<cfg, exec, soundFailed, produced, detectRead, text, translationProvider,
                 translation, result, files, now, calls, exitStatus, probe,
                 returned, notifyFailed, shown, contentType>>

\* await clipboardy.write(translation)
translateText_write ==
  /\ pc = "tt_write"
  /\ \E writeThrows \in BOOLEAN :
       IF writeThrows
         THEN Throw(ErrClipboard, "tt_catch") /\ UNCHANGED <<clipboard, written>>
         ELSE /\ NoThrow(IF script = "local" THEN "tt_hero" ELSE "tt_notify")
              /\ clipboard' = translation
              /\ written' = TRUE
  /\ UNCHANGED <<cfg, exec, soundFailed, produced, detectRead, text, translationProvider,
                 translation, result, files, now, calls, exitStatus, probe,
                 returned, notifyFailed, shown, contentType>>

\* script "local": execAsync('afplay .../Hero.aiff') inside the try block
translateText_hero ==
  /\ pc = "tt_hero"
  /\ calls' = [calls EXCEPT !.afplay = @ + 1]
  /\ \E soundFails \in BOOLEAN :
       /\ soundFailed' = (soundFailed \/ soundFails)
       /\ IF soundFails THEN Throw(ErrExec("afplay"), "tt_catch") ELSE NoThrow("tt_notify")
  /\ UNCHANGED <<cfg, exec, produced, detectRead, clipboard, text,
                 translationProvider, translation, result, files, now,
                 exitStatus, probe, written, returned, notifyFailed, shown,
                 contentType>>

\* await showNotification('Translation Complete', translation); the promise
\* of translateText (and of main) resolves
translateText_notify ==
  /\ pc = "tt_notify"
  /\ \E o \in NotifyOutcomes :
       /\ showNotification(translation, o)
       /\ IF NotifyThrows(o)
            THEN Throw(NotifyErr(o), "tt_catch") /\ exitStatus' = exitStatus
            ELSE NoThrow("done") /\ exitStatus' = 0
  /\ UNCHANGED <<cfg, exec, soundFailed, produced, detectRead, text, translationProvider,
                 translation, result, probe, written, returned, notifyFailed,
                 contentType>>

\* catch block of translateText: notify, then rethrow.  At top level the
\* rejection is unhandled and the process exits with status 1; in script
\* "main" it is caught by main.
translateText_catch ==
  /\ pc = "tt_catch"
  /\ \E o \in NotifyOutcomes :
       /\ showNotification(error, o)
       /\ error' = IF NotifyThrows(o) THEN NotifyErr(o) ELSE error
       /\ notifyFailed' = (notifyFailed \/ NotifyThrows(o))
  /\ IF script = "main"
       THEN pc' = "main_catch" /\ exitStatus' = exitStatus
       ELSE pc' = "done" /\ exitStatus' = 1
  /\ UNCHANGED <<cfg, exec, soundFailed, produced, detectRead, text, translationProvider,
                 translation, result, origErr, probe, written, returned,
                 contentType>>

----------------------------------------------------------------------------
\* translateImage (script "main")

\* translateImage without the test of the provider identifier
translateImage_config_noProviderTest ==
  /\ pc = "ti_config"
  /\ IF providers[provider] = Absent
       THEN Throw(ErrTitleOfUndefined, "ti_catch")
       ELSE NoThrow("ti_capture")
  /\ UNCHANGED <<cfg, exec, soundFailed, produced, detectRead, clipboard, text,
                 translationProvider, translation, result, files, now, calls,
                 exitStatus, probe, written, returned, notifyFailed, shown,
                 contentType>>

\* the provider test and the console.log lines that read provider.title
translateImage_config ==
  /\ pc = "ti_config"
  /\ IF provider # "open-ai"
       THEN Throw(ErrImageOnlyOpenAI, "ti_catch")
       ELSE IF providers[provider] = Absent
         THEN Throw(ErrTitleOfUndefined, "ti_catch")
         ELSE NoThrow("ti_capture")
  /\ UNCHANGED <<cfg, exec, soundFailed, produced, detectRead, clipboard, text,
                 translationProvider, translation, result, files, now, calls,
                 exitStatus, probe, written, returned, notifyFailed, shown,
                 contentType>>

\* getClipboardImage: is the data URI returned (and not null)
getClipboardImage(o) == o = "ok"

\* getClipboardImage: the temporary files it leaves behind
getClipboardImage_files(o, fs) ==
  IF o \in {"read-fails", "unlink-fails"} THEN fs \cup {TMP_IMAGE_PATH} ELSE fs

\* const imageData = await getClipboardImage(); if (!imageData) throw
translateImage_capture ==
  /\ pc = "ti_capture"
  /\ calls' = [calls EXCEPT !.pngpaste = @ + 1]
  /\ \E o \in CaptureOutcomes :
       /\ files' = getClipboardImage_files(o, files)
       /\ IF getClipboardImage(o)
            THEN NoThrow("ti_create")
            ELSE Throw(ErrNoImage, "ti_catch")
  /\ UNCHANGED <<cfg, exec, soundFailed, produced, detectRead, clipboard, text,
                 translationProvider, translation, result, now, exitStatus,
                 probe, written, returned, notifyFailed, shown, contentType>>

\* createTranslationProvider(translationConfig) as OpenAITranslationProvider
translateImage_create ==
  /\ pc = "ti_create"
  /\ LET c == createTranslationProvider(script, provider, providers) IN
       IF c.err # NoErr
         THEN /\ Throw(c.err, "ti_catch")
              /\ UNCHANGED <<translationProvider, calls>>
         ELSE /\ NoThrow("oa_translateImage")
              /\ translationProvider' = c.class
              /\ calls' = [calls EXCEPT !.construct = @ + 1]
  /\ UNCHANGED <<cfg, exec, soundFailed, produced, detectRead, clipboard, text, translation,
                 result, files, now, exitStatus, probe, written, returned,
                 notifyFailed, shown, contentType>>

OpenAITranslationProvider_translateImage ==
  /\ pc = "oa_translateImage"
  /\ calls' = [calls EXCEPT !.chat = @ + 1]
  /\ \E r \in ImageResponses :
       LET t == OpenAITranslateImage(r) IN
       IF t.err # NoErr
         THEN Throw(t.err, "ti_catch") /\ UNCHANGED <<result, produced>>
         ELSE NoThrow("ti_write") /\ result' = t.value /\ produced' = TRUE
  /\ UNCHANGED <<cfg, exec, soundFailed, detectRead, clipboard, text, translationProvider,
                 translation, files, now, exitStatus, probe, written,
                 returned, notifyFailed, shown, contentType>>

\* await clipboardy.write(result.translation)
translateImage_write ==
  /\ pc = "ti_write"
  /\ \E writeThrows \in BOOLEAN :
       IF ~result.hasTranslation
         THEN /\ Throw(ErrWriteNotString, "ti_catch")
              /\ UNCHANGED <<clipboard, written, translation>>
         ELSE IF writeThrows
           THEN /\ Throw(ErrClipboard, "ti_catch")
                /\ UNCHANGED <<clipboard, written, translation>>
           ELSE /\ NoThrow("ti_notify")
                /\ translation' = result.translation
                /\ clipboard' = result.translation
                /\ written' = TRUE
  /\ UNCHANGED <<cfg, exec, soundFailed, produced, detectRead, text, translationProvider, result,
                 files, now, calls, exitStatus, probe, returned, notifyFailed,
                 shown, contentType>>

\* `Original: ${result.text}\n\nTranslation: ${result.translation}`
ImageMessage(r) ==
  <<"Original: ">> \o (IF r.hasText THEN r.text ELSE <<"undefined">>)
    \o <<"\n\nTranslation: ">> \o r.translation

\* await showNotification('Image Translation Complete', message)
translateImage_notify ==
  /\ pc = "ti_notify"
  /\ \E o \in NotifyOutcomes :
       /\ showNotification(ImageMessage(result), o)
       /\ IF NotifyThrows(o)
            THEN Throw(NotifyErr(o), "ti_catch") /\ exitStatus' = exitStatus
            ELSE NoThrow("done") /\ exitStatus' = 0
  /\ UNCHANGED <<cfg, exec, soundFailed, produced, detectRead, text, translationProvider,
                 translation, result, probe, written, returned, notifyFailed,
                 contentType>>

\* catch block of translateImage: notify, then rethrow to main
translateImage_catch ==
  /\ pc = "ti_catch"
  /\ \E o \in NotifyOutcomes :
       /\ showNotification(error, o)
       /\ error' = IF NotifyThrows(o) THEN NotifyErr(o) ELSE error
       /\ notifyFailed' = (notifyFailed \/ NotifyThrows(o))
  /\ pc' = "main_catch"
  /\ UNCHANGED <<cfg, exec, soundFailed, produced, detectRead, text, translationProvider,
                 translation, result, origErr, exitStatus, probe, written,
                 returned, contentType>>

----------------------------------------------------------------------------

Next ==
  \/ main
  \/ main_catch
  \/ translateText_purr
  \/ translateText_config
  \/ translateText_read
  \/ translateText_create
  \/ OpenAITranslationProvider_translate
  \/ LibreTranslateProvider_health
  \/ LibreTranslateProvider_unavailable
  \/ LibreTranslateProvider_post
  \/ LocalTranslationProvider_translate
  \/ translateText_write
  \/ translateText_hero
  \/ translateText_notify
  \/ translateText_catch
  \/ translateImage_config
  \/ translateImage_capture
  \/ translateImage_create
  \/ OpenAITranslationProvider_translateImage
  \/ translateImage_write
  \/ translateImage_notify
  \/ translateImage_catch

Spec == Init /\ [][Next]_vars

----------------------------------------------------------------------------
\* Invocations of src/src/translate-buffer.ts with the LibreTranslate provider

LibreInit ==
  /\ script = "translate-buffer"
  /\ provider = "libre-translate"
  /\ providers = DefaultProviders
  /\ targetLanguage = <<"en">>
  /\ template = DefaultTemplate
  /\ clipboard \in Texts
  /\ image \in {"none", "data"}
  /\ service \in {"up", "dead", "silent"}
  /\ pc = "tt_config"
  /\ text = <<>>
  /\ translationProvider = "none"
  /\ translation = <<>>
  /\ result = NoResult
  /\ error = NoErr
  /\ files = {}
  /\ now = 0
  /\ calls = NoCalls
  /\ exitStatus = -1
  /\ clip0 = clipboard
  /\ origErr = NoErr
  /\ probe = "none"
  /\ written = FALSE
  /\ returned = {}
  /\ notifyFailed = FALSE
  /\ shown = <<>>
  /\ produced = FALSE
  /\ detectRead = "none"
  /\ soundFailed = FALSE
  /\ exec = NoExec
  /\ contentType = "none"

LibreNext ==
  \/ translateText_config
  \/ translateText_read
  \/ translateText_create
  \/ LibreTranslateProvider_health
  \/ LibreTranslateProvider_unavailable
  \/ LibreTranslateProvider_post
  \/ translateText_write
  \/ translateText_notify
  \/ translateText_catch

\* every awaited promise settles and the continuation runs
LibreFairSpec == LibreInit /\ [][LibreNext]_vars /\ WF_vars(LibreNext)

----------------------------------------------------------------------------
\* The local-command provider on source texts that contain placeholder-like
\* substrings, with several argument templates

ArgChars == Chars \cup {"{targetLanguage}"}

ArgTexts == UNION {[1..n -> ArgChars] : n \in 0..MaxLen}

Templates ==
  {DefaultTemplate,
   <<<<"{targetLanguage}", ":", "{text}">>>>,
   <<<<"{text}", ":", "{targetLanguage}">>>>}

ArgsInit ==
  /\ script = "local"
  /\ provider = "local-translate"
  /\ providers = DefaultProviders
  /\ targetLanguage = <<"en">>
  /\ template \in Templates
  /\ clipboard \in ArgTexts
  /\ image = "none"
  /\ service = "up"
  /\ pc = "tt_purr"
  /\ text = <<>>
  /\ translationProvider = "none"
  /\ translation = <<>>
  /\ result = NoResult
  /\ error = NoErr
  /\ files = {}
  /\ now = 0
  /\ calls = NoCalls
  /\ exitStatus = -1
  /\ clip0 = clipboard
  /\ origErr = NoErr
  /\ probe = "none"
  /\ written = FALSE
  /\ returned = {}
  /\ notifyFailed = FALSE
  /\ shown = <<>>
  /\ produced = FALSE
  /\ detectRead = "none"
  /\ soundFailed = FALSE
  /\ exec = NoExec
  /\ contentType = "none"

ArgsNext ==
  \/ translateText_purr
  \/ translateText_read
  \/ translateText_create
  \/ LocalTranslationProvider_translate
  \/ translateText_write
  \/ translateText_hero
  \/ translateText_notify
  \/ translateText_catch

ArgsSpec == ArgsInit /\ [][ArgsNext]_vars

TypeOK ==
  /\ script \in Scripts
  /\ provider \in ProviderIds
  /\ image \in {"none", "empty", "data"}
  /\ exitStatus \in {-1, 0, 1}
  /\ (pc = "done") = (exitStatus # -1)

----------------------------------------------------------------------------
\* Properties

Done == pc = "done"
Failed == origErr # NoErr
ProbeFailed == probe \in {"throw", "non2xx"}

\* errors that come from a failing collaborator (clipboard, sound player,
\* dialog, network), not from the invocation's own checks
CollaboratorErrors ==
  {ErrClipboard, ErrOpenAI, ErrExec("afplay"), ErrExec("echo"),
   ErrExec("osascript"), ErrExec("rm")}

\* the last dialog in which Copy was pressed, 0 when there is none
LastCopy ==
  LET cs == {i \in 1..Len(shown) : shown[i].button = "Copy"} IN
  IF cs = {} THEN 0 ELSE CHOOSE i \in cs : \A j \in cs : j <= i

\* C1: when the health probe of the LibreTranslate provider fails (GET
\* /languages throws or answers non-2xx), translate throws the service
\* unavailable error and POST /translate is never issued: one health call
\* and no translate call.
C1_NoTranslateAfterFailedProbe ==
  ProbeFailed =>
    /\ calls.health = 1
    /\ calls.post = 0
    /\ pc # "lt_post"
    /\ (pc # "lt_sound" => origErr = TranslationFailed(ErrServiceUnavailable))

C1_Witness ==
  /\ Done
  /\ probe = "non2xx"
  /\ calls.health = 1
  /\ calls.post = 0
  /\ origErr = TranslationFailed(ErrServiceUnavailable)

\* C2: an invocation ends with exit status 0 when a translation was produced
\* and written to the clipboard, and every failure path ends with a non-zero
\* exit status after an error notification was attempted.
C2_ExitStatusContract ==
  Done =>
    /\ (produced /\ written => exitStatus = 0)
    /\ (Failed /\ ~written => exitStatus # 0 /\ now > 0)

\* C3: when the invocation has failed and the error notification itself
\* fails, the notification failure is swallowed: the error the invocation
\* ends with is the original error, never the error of the notification.
C3_NotificationFailureNeverMasks ==
  Done /\ notifyFailed => error = origErr

\* C4: when the active provider identifier is absent from the providers
\* mapping, the invocation fails with the provider-not-found error and no
\* network request or subprocess is started before that failure is raised.
C4_AbsentProviderNotFound ==
  providers[provider] = Absent /\ contentType # "unknown" /\ Failed
      /\ origErr \notin CollaboratorErrors =>
    /\ origErr = ErrProviderNotFound(provider)
    /\ (now = 0 => ExternalCalls = 0)

\* C5: with an image on the clipboard and a provider other than the cloud
\* one, translateImage fails with the capability error before any external
\* call: no image capture, no provider construction, no backend request.
C5_ImageRejectedBeforeAnyCall ==
  contentType = "image" /\ provider # "open-ai" =>
    /\ calls.pngpaste = 0
    /\ calls.construct = 0
    /\ translationProvider = "none"
    /\ BackendCalls + calls.health = 0
    /\ (pc # "ti_config" => origErr = ErrImageOnlyOpenAI)
    /\ (now = 0 => ExternalCalls = 0)

C5_Witness ==
  /\ Done
  /\ contentType = "image"
  /\ provider = "libre-translate"
  /\ providers[provider] = "local-service"
  /\ origErr = ErrImageOnlyOpenAI

\* C6 as stated: whenever an invocation fails before a translation has been
\* produced, the clipboard at the end is identical to the clipboard at the
\* start, the error dialog included.
C6_ClipboardUntouchedOnFailure ==
  Done /\ Failed /\ ~produced => clipboard = clip0

\* C6 amended: whenever an invocation fails before a translation has been
\* produced, the clipboard at the end is identical to the clipboard at the
\* start, unless the user pressed Copy in an error dialog, and then it holds
\* the message of the last dialog in which Copy was pressed.
C6_ClipboardUntouchedUnlessCopied ==
  Done /\ Failed /\ ~produced =>
    clipboard = IF LastCopy = 0 THEN clip0 ELSE shown[LastCopy].message

C6_Witness ==
  /\ Done
  /\ contentType = "image"
  /\ provider = "libre-translate"
  /\ origErr = ErrImageOnlyOpenAI
  /\ ~produced
  /\ Len(shown) = 2
  /\ shown[1].button = "Copy"
  /\ shown[2].button = "OK"
  /\ clipboard = ErrImageOnlyOpenAI
  /\ clip0 # <<>>

\* C7: every temporary file the invocation creates (tmp_clipboard.png, the
\* dialog script) no longer exists when the invocation ends, on every exit
\* path.
C7_NoTemporaryFileLeft ==
  Done => files = {}

\* C8: for every provider kind and backend response, translate returns a
\* non-empty string or fails; it never returns the empty string.
C8_TranslateNeverReturnsEmpty ==
  \A t \in returned : t # <<>>

\* C9: an invocation is a single pass: at most one provider is constructed
\* and at most one translation backend call (chat completion, POST
\* /translate or translator subprocess) is issued, so no backend call
\* follows a failed one.
C9_SinglePass ==
  /\ calls.construct <= 1
  /\ BackendCalls <= 1
  /\ calls.health <= 1
  /\ calls.pngpaste <= 1

C9_Witness ==
  /\ Done
  /\ BackendCalls = 1
  /\ calls.construct = 1
  /\ ~produced
  /\ origErr = ErrOpenAI

\* C10: content detection probes the image first and falls back to text:
\* 'image' whenever the clipboard holds non-empty image data, also with text
\* present; 'text' without an image and with usable text; otherwise the
\* invocation fails with the no-content error, with no provider selected and
\* no backend call.
C10_DetectionOrder ==
  contentType # "none" =>
    /\ (image = "data" => contentType = "image")
    /\ (image # "data" /\ detectRead = "ok" /\ Trim(clip0) # <<>>
          => contentType = "text")
    /\ (image # "data" /\ (detectRead = "throws" \/ Trim(clip0) = <<>>)
          => /\ contentType = "unknown"
             /\ origErr = ErrUnsupportedContent
             /\ translationProvider = "none"
             /\ calls.construct = 0
             /\ BackendCalls + calls.health + calls.pngpaste = 0)

C10_Witness ==
  /\ contentType = "image"
  /\ image = "data"
  /\ Trim(clip0) # <<>>
  /\ pc = "ti_config"

\* the provider class that corresponds to a config type in a script, "none"
\* when the script has no class for it
ClassOfType(s, t) ==
  CASE t = "cloud" -> "OpenAITranslationProvider"
    [] t = "local-service" /\ s # "local" -> "LibreTranslateProvider"
    [] t = "local" /\ s = "local" -> "LocalTranslationProvider"
    [] OTHER -> "none"

\* C11: the provider factory has three outcomes: provider-not-found when the
\* identifier is absent from the mapping, unsupported-provider-kind when the
\* entry's kind cannot be constructed, and otherwise the provider variant
\* that corresponds to the kind of the identifier's config entry.
C11_FactoryFollowsKind ==
  /\ (translationProvider # "none" =>
        translationProvider = ClassOfType(script, providers[provider]))
  /\ (origErr = ErrUnsupportedProvider(provider) =>
        /\ providers[provider] # Absent
        /\ ClassOfType(script, providers[provider]) = "none")
  /\ (origErr = ErrProviderNotFound(provider) => providers[provider] = Absent)

Succeeded == Done /\ ~Failed

C13_SoundFailureNeverPropagates ==
  soundFailed => origErr # ErrExec("afplay") /\ error # ErrExec("afplay")

\* C14: translateImage of the cloud provider has three outcomes on a
\* response: the empty-response error when the content is empty or missing,
\* the malformed-response error when the content cannot be parsed into the
\* result, and otherwise a result that has both a text and a translation
\* field (a rejected request is the transport error).
C14_ImageResultHasBothFields ==
  /\ (pc = "ti_write" => result.hasText /\ result.hasTranslation)
  /\ (pc = "ti_catch" /\ calls.chat = 1 /\ now = 0 =>
        error \in {ErrNoTranslation, ErrParse, ErrOpenAI})

C16_StdoutReturnedOnExit0 ==
  exec.ran =>
    /\ (exec.kind = "exit0" =>
          /\ returned = {Trim(exec.stdout)}
          /\ produced
          /\ origErr # TranslationFailed(ErrExec("translate"))
          /\ (pc = "tt_write" => error = NoErr /\ translation = Trim(exec.stdout)))
    /\ (exec.kind # "exit0" =>
          /\ returned = {}
          /\ ~produced
          /\ origErr = TranslationFailed(ErrExec("translate")))

C16_Witness ==
  /\ pc = "tt_write"
  /\ exec.ran
  /\ exec.kind = "exit0"
  /\ exec.stderr
  /\ exec.stdout = <<"a", " ">>
  /\ translation = <<"a">>
  /\ error = NoErr

\* the template argument with its placeholders filled in at once
RECURSIVE Filled(_, _, _)
Filled(arg, txt, tl) ==
  IF arg = <<>> THEN <<>>
  ELSE (CASE Head(arg) = "{text}" -> txt
          [] Head(arg) = "{targetLanguage}" -> tl
          [] OTHER -> <<Head(arg)>>) \o Filled(Tail(arg), txt, tl)

\* C18: in the local-command provider every argument passed to the
\* executable equals the template argument with {text} replaced by the
\* source text and {targetLanguage} by the target language; the source text
\* is inserted verbatim, a placeholder-like substring in it is never
\* substituted.
C18_ArgumentsAreFilledTemplate ==
  exec.ran =>
    /\ exec.args = [i \in 1..Len(template) |-> Filled(template[i], text, targetLanguage)]
    /\ exec.argv = exec.args

\* the invocation met no failing collaborator, no unusable configuration and
\* no failed health probe
Undisturbed ==
  /\ origErr \notin CollaboratorErrors
  /\ createTranslationProvider(script, provider, providers).err = NoErr
  /\ ~ProbeFailed

\* C17 as stated: when the clipboard text is present but empty, the
\* invocation still issues exactly one backend call to the active provider;
\* it neither skips the call nor fails before reaching the provider.
C17_EmptyTextReachesProvider ==
  Done /\ clip0 = <<>> /\ image # "data" /\ Undisturbed => BackendCalls = 1

\* C17 amended: when the clipboard text is present but empty, the variants
\* that call translateText directly (no content detection) still issue
\* exactly one backend call to the active provider; the variant with content
\* detection rejects the empty text as unsupported content before a provider
\* is reached.
C17_EmptyTextReachesProviderWithoutDetection ==
  Done /\ clip0 = <<>> /\ image # "data" /\ Undisturbed =>
    IF script = "main"
      THEN /\ BackendCalls = 0
           /\ translationProvider = "none"
           /\ origErr = ErrUnsupportedContent
      ELSE /\ BackendCalls = 1
           /\ translationProvider # "none"
           /\ text = <<>>

C17_Witness ==
  /\ Done
  /\ script = "translate-buffer"
  /\ provider = "open-ai"
  /\ clip0 = <<>>
  /\ calls.chat = 1
  /\ returned = {<<"a">>}
  /\ clipboard = <<"a">>
  /\ exitStatus = 0

====
